---- MODULE Spec2Model ----
(***************************************************************************)
(* Model of the comment-stripping scanner Obfuscator::obfuscate            *)
(* (comment-stripping/src/lib.rs).  One behaviour is one call of           *)
(* obfuscate on one input; one step is one iteration of its                *)
(* `while let Some(ch) = chars.next()` loop, split by match arm.           *)
(* IdemSpec lets a caller hand the returned text to obfuscate once more.   *)
(* ParenSpec is one call of check_parentheses_and_brackets                 *)
(* (paranthesis-rs/src/main.rs), one step per iteration of its for loop.   *)
(***************************************************************************)
EXTENDS Integers, Sequences, FiniteSets, TLC

\* Longest input text the model enumerates.
MaxLen == 5

\* The characters the scanner tells apart, and one ordinary character.
Slash == "/"
Star == "*"
DQuote == "\""
SQuote == "'"
Backslash == "\\"
Newline == "\n"
Ordinary == "a"

Chars == {Slash, Star, DQuote, SQuote, Backslash, Newline, Ordinary}
Quotes == {DQuote, SQuote}

\* enum State
Code == <<"Code">>
SingleLineComment == <<"SingleLineComment">>
MultiLineComment == <<"MultiLineComment">>
String(q) == <<"String", q>>

IsString(s) == s[1] = "String"

\* Option<char>
None == <<>>
Some(c) == <<c>>

Inputs == UNION {[1..n -> Chars] : n \in 0..MaxLen}

VARIABLES
    input,      \* the text handed to obfuscate
    pos,        \* how many characters the iterator `chars` has yielded
    output,     \* the String being built
    state,      \* the scanner state
    prev_char,  \* Option<char>: the character of the previous iteration
    pc,         \* "scan" while the loop runs, "done" once obfuscate returned
    result,     \* the value obfuscate returned
    hist,       \* one record per loop iteration: the state, position and
                \* output the iteration started with
    pass,       \* 1 for the call on the given text, 2 for a call on its result
    first,      \* during the second call: how the first one ended
    text,       \* the text handed to check_parentheses_and_brackets
    idx,        \* how many characters its for loop has read
    stack,      \* its Vec<char>
    ppc,        \* "loop" while it runs; "early" once it returned false from
                \* inside the loop, "end" once it returned behind the loop;
                \* "idle" when it is not called
    ret         \* the bool it returned

parenVars == <<text, idx, stack, ppc, ret>>
scanVars == <<input, pos, output, state, prev_char, pc, result, hist, pass, first>>
vars == <<input, pos, output, state, prev_char, pc, result, hist, pass, first,
          text, idx, stack, ppc, ret>>

\* check_parentheses_and_brackets is not called
ParenIdle ==
    /\ text = <<>>
    /\ idx = 0
    /\ stack = <<>>
    /\ ppc = "idle"
    /\ ret = FALSE

\* obfuscate is not called
ScanIdle ==
    /\ input = <<>>
    /\ pos = 0
    /\ output = <<>>
    /\ state = Code
    /\ prev_char = None
    /\ pc = "idle"
    /\ result = <<>>
    /\ hist = <<>>
    /\ pass = 1
    /\ first = None

Init ==
    /\ ParenIdle
    /\ pass = 1
    /\ first = None
    /\ input \in Inputs
    /\ pos = 0
    /\ output = <<>>
    /\ state = Code
    /\ prev_char = None
    /\ pc = "scan"
    /\ result = <<>>
    /\ hist = <<>>

\* `while let Some(ch) = chars.next()`: the loop body runs with ch bound.
HasCh == pc = "scan" /\ pos < Len(input)
ch == input[pos + 1]
\* chars.peek() after ch was taken
HasNext == pos + 2 <= Len(input)
next_ch == input[pos + 2]

\* Iter recording prev_char only in the state that reads it.
Iter_PrevInStringOnly(n) ==
    /\ pos' = pos + n
    /\ prev_char' = IF IsString(state) THEN Some(ch) ELSE prev_char
    /\ hist' = Append(hist, [st |-> state, at |-> pos, out |-> output])
    /\ UNCHANGED <<input, pc, result, pass, first, parenVars>>

\* What every iteration does besides its match arm: prev_char = Some(ch),
\* only ch (n = 1) or ch and the peeked character (n = 2) leave the iterator.
Iter(n) ==
    /\ pos' = pos + n
    /\ prev_char' = Some(ch)
    /\ hist' = Append(hist, [st |-> state, at |-> pos, out |-> output])
    /\ UNCHANGED <<input, pc, result, pass, first, parenVars>>

\* Code, '/', next is '/': consume it, enter SingleLineComment
CodeSlashSlash ==
    /\ HasCh /\ state = Code /\ ch = Slash
    /\ HasNext /\ next_ch = Slash
    /\ state' = SingleLineComment
    /\ output' = output
    /\ Iter(2)

\* CodeSlashStar leaving the '*' of the opener in the iterator.
CodeSlashStar_KeepStar ==
    /\ HasCh /\ state = Code /\ ch = Slash
    /\ HasNext /\ next_ch = Star
    /\ state' = MultiLineComment
    /\ output' = output
    /\ Iter(1)

\* Code, '/', next is '*': consume it, enter MultiLineComment
CodeSlashStar ==
    /\ HasCh /\ state = Code /\ ch = Slash
    /\ HasNext /\ next_ch = Star
    /\ state' = MultiLineComment
    /\ output' = output
    /\ Iter(2)

\* CodeSlashEmit with the push of '/' forgotten.
CodeSlashEmit_Drop ==
    /\ HasCh /\ state = Code /\ ch = Slash
    /\ ~(HasNext /\ next_ch \in {Slash, Star})
    /\ output' = output
    /\ state' = state
    /\ Iter(1)

\* CodeSlashEmit pushing the peeked character as well, without consuming it.
CodeSlashEmit_PushNext ==
    /\ HasCh /\ state = Code /\ ch = Slash
    /\ ~(HasNext /\ next_ch \in {Slash, Star})
    /\ output' = IF HasNext THEN output \o <<ch, next_ch>> ELSE Append(output, ch)
    /\ state' = state
    /\ Iter(1)

\* CodeSlashEmit taking the peeked character out of the iterator.
CodeSlashEmit_ConsumeNext ==
    /\ HasCh /\ state = Code /\ ch = Slash
    /\ ~(HasNext /\ next_ch \in {Slash, Star})
    /\ output' = Append(output, ch)
    /\ state' = state
    /\ IF HasNext THEN Iter(2) ELSE Iter(1)

\* Code, '/', next is something else or there is no next: push '/'
CodeSlashEmit ==
    /\ HasCh /\ state = Code /\ ch = Slash
    /\ ~(HasNext /\ next_ch \in {Slash, Star})
    /\ output' = Append(output, ch)
    /\ state' = state
    /\ Iter(1)

\* CodeQuote with the push of the opening quote forgotten.
CodeQuote_Drop ==
    /\ HasCh /\ state = Code /\ ch \in Quotes
    /\ output' = output
    /\ state' = String(ch)
    /\ Iter(1)

\* Code, '"' or '\'': push it, enter String(ch)
CodeQuote ==
    /\ HasCh /\ state = Code /\ ch \in Quotes
    /\ output' = Append(output, ch)
    /\ state' = String(ch)
    /\ Iter(1)

\* Code, any other character: push it
CodeOther ==
    /\ HasCh /\ state = Code /\ ch \notin Quotes \cup {Slash}
    /\ output' = Append(output, ch)
    /\ state' = state
    /\ Iter(1)

\* LineCommentNewline with the newline discarded like the rest of the comment.
LineCommentNewline_Drop ==
    /\ HasCh /\ state = SingleLineComment /\ ch = Newline
    /\ output' = output
    /\ state' = Code
    /\ Iter(1)

\* LineCommentNewline trimming the character in front of the comment before
\* it pushes the newline.
LineCommentNewline_TrimsOutput ==
    /\ HasCh /\ state = SingleLineComment /\ ch = Newline
    /\ output' = Append(SubSeq(output, 1, Len(output) - 1), ch)
    /\ state' = Code
    /\ Iter(1)

\* SingleLineComment, '\n': push it, back to Code
LineCommentNewline ==
    /\ HasCh /\ state = SingleLineComment /\ ch = Newline
    /\ output' = Append(output, ch)
    /\ state' = Code
    /\ Iter(1)

\* LineCommentIgnore copying the comment's text.
LineCommentIgnore_Push ==
    /\ HasCh /\ state = SingleLineComment /\ ch # Newline
    /\ output' = Append(output, ch)
    /\ state' = state
    /\ Iter(1)

\* LineCommentIgnore letting a quote character open a literal.
LineCommentIgnore_OpensString ==
    /\ HasCh /\ state = SingleLineComment /\ ch # Newline
    /\ output' = output
    /\ state' = IF ch \in Quotes THEN String(ch) ELSE state
    /\ Iter(1)

\* SingleLineComment, anything else: ignored
LineCommentIgnore ==
    /\ HasCh /\ state = SingleLineComment /\ ch # Newline
    /\ output' = output
    /\ state' = state
    /\ Iter(1)

\* BlockCommentClose leaving the '/' of the closer in the iterator.
BlockCommentClose_KeepSlash ==
    /\ HasCh /\ state = MultiLineComment /\ ch = Star
    /\ HasNext /\ next_ch = Slash
    /\ output' = output
    /\ state' = Code
    /\ Iter(1)

\* MultiLineComment, '*' with '/' next: consume the '/', back to Code
BlockCommentClose ==
    /\ HasCh /\ state = MultiLineComment /\ ch = Star
    /\ HasNext /\ next_ch = Slash
    /\ output' = output
    /\ state' = Code
    /\ Iter(2)

\* BlockCommentIgnore copying the comment's text.
BlockCommentIgnore_Push ==
    /\ HasCh /\ state = MultiLineComment
    /\ ~(ch = Star /\ HasNext /\ next_ch = Slash)
    /\ output' = Append(output, ch)
    /\ state' = state
    /\ Iter(1)

\* BlockCommentIgnore keeping the newlines of the comment.
BlockCommentIgnore_KeepsNewline ==
    /\ HasCh /\ state = MultiLineComment
    /\ ~(ch = Star /\ HasNext /\ next_ch = Slash)
    /\ output' = IF ch = Newline THEN Append(output, ch) ELSE output
    /\ state' = state
    /\ Iter(1)

\* MultiLineComment, anything else: ignored
BlockCommentIgnore ==
    /\ HasCh /\ state = MultiLineComment
    /\ ~(ch = Star /\ HasNext /\ next_ch = Slash)
    /\ output' = output
    /\ state' = state
    /\ Iter(1)

\* The close test with the escape check left out.
Closes_NoEscape == ch = state[2]

\* The close test accepting either quote character.
Closes_AnyQuote == ch \in Quotes /\ prev_char # Some(Backslash)

\* The close test counting the backslashes in front of the quote: an even
\* run escapes nothing.
Closes_Parity ==
    /\ ch = state[2]
    /\ LET run == CHOOSE n \in 0..pos :
                    /\ \A i \in (pos - n + 1)..pos : input[i] = Backslash
                    /\ (n < pos => input[pos - n] # Backslash)
       IN  run % 2 = 0

\* `ch == quote && prev_char != Some('\\')`
Closes == ch = state[2] /\ prev_char # Some(Backslash)

\* String(quote), the quote itself and prev_char is not a backslash:
\* push it, back to Code
StringClose ==
    /\ HasCh /\ IsString(state)
    /\ Closes
    /\ output' = Append(output, ch)
    /\ state' = Code
    /\ Iter(1)

\* StringKeep recognising a "//" inside the literal.
StringKeep_LineComment ==
    /\ HasCh /\ IsString(state)
    /\ ~Closes
    /\ IF ch = Slash /\ HasNext /\ next_ch = Slash
       THEN output' = output /\ state' = SingleLineComment /\ Iter(2)
       ELSE output' = Append(output, ch) /\ state' = state /\ Iter(1)

\* String(quote), anything else: push it
StringKeep ==
    /\ HasCh /\ IsString(state)
    /\ ~Closes
    /\ output' = Append(output, ch)
    /\ state' = state
    /\ Iter(1)

\* Return with the loop ending one character early.
Return_Early ==
    /\ pc = "scan" /\ pos + 1 >= Len(input)
    /\ pc' = "done"
    /\ result' = output
    /\ UNCHANGED <<input, pos, output, state, prev_char, hist, pass, first, parenVars>>

\* Return closing a literal the input left open.
Return_ClosesString ==
    /\ pc = "scan" /\ pos >= Len(input)
    /\ pc' = "done"
    /\ result' = IF IsString(state) THEN Append(output, state[2]) ELSE output
    /\ UNCHANGED <<input, pos, output, state, prev_char, hist, pass, first, parenVars>>

\* chars.next() is None: the loop ends and output is returned
Return ==
    /\ pc = "scan" /\ pos >= Len(input)
    /\ pc' = "done"
    /\ result' = output
    /\ UNCHANGED <<input, pos, output, state, prev_char, hist, pass, first, parenVars>>

Next ==
    \/ CodeSlashSlash
    \/ CodeSlashStar
    \/ CodeSlashEmit
    \/ CodeQuote
    \/ CodeOther
    \/ LineCommentNewline
    \/ LineCommentIgnore
    \/ BlockCommentClose
    \/ BlockCommentIgnore
    \/ StringClose
    \/ StringKeep
    \/ Return

Spec == Init /\ [][Next]_vars

\* The caller hands the returned text to obfuscate again: a fresh call, with
\* fresh output, state, chars and prev_char.
Rescan ==
    /\ pc = "done" /\ pass = 1
    /\ pass' = 2
    /\ first' = Some([input |-> input, hist |-> hist, state |-> state])
    /\ input' = result
    /\ pos' = 0
    /\ output' = <<>>
    /\ state' = Code
    /\ prev_char' = None
    /\ pc' = "scan"
    /\ result' = <<>>
    /\ hist' = <<>>
    /\ UNCHANGED parenVars

IdemNext == Next \/ Rescan

IdemSpec == Init /\ [][IdemNext]_vars

\* The loop is a synchronous computation: an iteration that can run, runs.
FairSpec == Spec /\ WF_vars(Next)

TypeOK ==
    /\ input \in Inputs
    /\ pos \in 0..Len(input)
    /\ state \in {Code, SingleLineComment, MultiLineComment} \cup {String(q) : q \in Quotes}
    /\ pc \in {"scan", "done"}

(***************************************************************************)
(* check_parentheses_and_brackets                                          *)
(***************************************************************************)
\* Longest text handed to check_parentheses_and_brackets.
MaxTextLen == 5

LParen == "("
RParen == ")"
LBracket == "["
RBracket == "]"
Letter == "a"

TextChars == {LParen, RParen, LBracket, RBracket, Letter}
Texts == UNION {[1..n -> TextChars] : n \in 0..MaxTextLen}

ParenInit ==
    /\ ScanIdle
    /\ text \in Texts
    /\ idx = 0
    /\ stack = <<>>
    /\ ppc = "loop"
    /\ ret = FALSE

\* `for c in input.chars()`: the loop body runs with c bound.
HasC == ppc = "loop" /\ idx < Len(text)
c == text[idx + 1]

\* stack.pop(): the value and what is left of the stack
Popped == IF stack = <<>> THEN None ELSE Some(stack[Len(stack)])
AfterPop == IF stack = <<>> THEN stack ELSE SubSeq(stack, 1, Len(stack) - 1)

\* The pop test taking any opening symbol for a match.
PopIs_AnyOpen(open) == Popped # None

\* `stack.pop() != Some(open)`, negated
PopIs(open) == Popped = Some(open)

\* '(' | '[' => stack.push(c)
ParenPush ==
    /\ HasC /\ c \in {LParen, LBracket}
    /\ stack' = Append(stack, c)
    /\ idx' = idx + 1
    /\ UNCHANGED <<text, ppc, ret, scanVars>>

\* ')' => pop; return false unless a '(' was popped
ParenCloseRound ==
    /\ HasC /\ c = RParen
    /\ stack' = AfterPop
    /\ idx' = idx + 1
    /\ IF PopIs(LParen)
       THEN UNCHANGED <<ppc, ret>>
       ELSE ppc' = "early" /\ ret' = FALSE
    /\ UNCHANGED <<text, scanVars>>

\* ']' => pop; return false unless a '[' was popped
ParenCloseSquare ==
    /\ HasC /\ c = RBracket
    /\ stack' = AfterPop
    /\ idx' = idx + 1
    /\ IF PopIs(LBracket)
       THEN UNCHANGED <<ppc, ret>>
       ELSE ppc' = "early" /\ ret' = FALSE
    /\ UNCHANGED <<text, scanVars>>

\* _ => continue
ParenSkip ==
    /\ HasC /\ c \notin {LParen, LBracket, RParen, RBracket}
    /\ idx' = idx + 1
    /\ UNCHANGED <<text, stack, ppc, ret, scanVars>>

\* behind the loop: stack.is_empty()
ParenFinish ==
    /\ ppc = "loop" /\ idx >= Len(text)
    /\ ret' = (stack = <<>>)
    /\ ppc' = "end"
    /\ UNCHANGED <<text, idx, stack, scanVars>>

ParenNext ==
    \/ ParenPush
    \/ ParenCloseRound
    \/ ParenCloseSquare
    \/ ParenSkip
    \/ ParenFinish

ParenSpec == ParenInit /\ [][ParenNext]_vars

(***************************************************************************)
(* Reading the history: iteration k started in hist[k].st at position      *)
(* hist[k].at with output hist[k].out; what it left behind is what         *)
(* iteration k+1 started with, or the current state for the last one.      *)
(***************************************************************************)
StAfter(k) == IF k < Len(hist) THEN hist[k + 1].st ELSE state
AtAfter(k) == IF k < Len(hist) THEN hist[k + 1].at ELSE pos
OutAfter(k) == IF k < Len(hist) THEN hist[k + 1].out ELSE output
Consumed(k) == AtAfter(k) - hist[k].at
ChOf(k) == input[hist[k].at + 1]
Iterations == 1..Len(hist)

\* x holds no "//", no "/*" and no quote character
NoTrigger(x) ==
    /\ \A i \in 1..Len(x) : x[i] \notin Quotes
    /\ \A i \in 1..(Len(x) - 1) : ~(x[i] = Slash /\ x[i + 1] \in {Slash, Star})

\* C1: on an input with no "//", no "/*" and no quote character the scanner
\* never leaves Code, emits every character it consumes (every lone '/'
\* included) and returns the input unchanged.
C1_CommentFreeUnchanged ==
    NoTrigger(input) =>
        /\ state = Code
        /\ \A k \in Iterations : hist[k].st = Code
        /\ output = SubSeq(input, 1, pos)
        /\ pc = "done" => result = input

\* C1 witness: a finished scan of a trigger-free input holding a '/' followed
\* by another character and a '/' at its very end.
C1_Witness ==
    /\ pc = "done"
    /\ NoTrigger(input)
    /\ Len(input) >= 3
    /\ input[Len(input)] = Slash
    /\ \E i \in 1..(Len(input) - 1) : input[i] = Slash
    /\ result = input

\* C2: the output never outgrows the consumed input: after every step the
\* number of characters emitted is at most the number consumed, each step
\* consumes one or two characters and emits at most one, and the returned
\* text is no longer than the input.
C2_LengthNonIncrease ==
    /\ Len(output) <= pos
    /\ \A k \in Iterations :
        /\ Consumed(k) \in {1, 2}
        /\ Len(OutAfter(k)) - Len(hist[k].out) \in {0, 1}
    /\ pc = "done" => Len(result) <= Len(input)

\* C2 witness: a finished scan that emitted something and dropped something.
C2_Witness ==
    /\ pc = "done"
    /\ Len(result) > 0
    /\ Len(result) < Len(input)
    /\ \E k \in Iterations : Consumed(k) = 2

Min(S) == CHOOSE x \in S : \A y \in S : x <= y
Max(S) == CHOOSE x \in S : \A y \in S : x >= y

\* Iteration k read, in Code, the character c at position p = hist[k].at + 1
OpensAt(k) == hist[k].at + 1
ReadsQuote(k) == hist[k].st = Code /\ ChOf(k) \in Quotes
\* Positions after p of a q that is not immediately preceded by a backslash
ClosersOf(p, q) ==
    {j \in (p + 1)..Len(input) : input[j] = q /\ input[j - 1] # Backslash}
\* Iteration k read, in Code, a '/' with x right behind it
ReadsOpener(k, x) ==
    /\ hist[k].st = Code
    /\ ChOf(k) = Slash
    /\ hist[k].at + 2 <= Len(input)
    /\ input[hist[k].at + 2] = x
\* Positions of a newline behind the "//" at p
NewlinesAfter(p) == {j \in (p + 2)..Len(input) : input[j] = Newline}
\* Positions where a "*/" starts behind the "/*" at p
BlockClosersAfter(p) ==
    {j \in (p + 2)..(Len(input) - 1) : input[j] = Star /\ input[j + 1] = Slash}

\* C3: in String(q) every consumed character is emitted, one character per
\* step with no lookahead consumed, and the only state left to is Code; a
\* literal opened by q in Code and closed by the next q not immediately
\* preceded by a backslash is in the output exactly as in the input, quotes
\* included, whatever it contains, and the scanner is back in Code after it.
C3_LiteralPreserved ==
    \A k \in Iterations :
        /\ IsString(hist[k].st) =>
            /\ Consumed(k) = 1
            /\ OutAfter(k) = Append(hist[k].out, ChOf(k))
            /\ StAfter(k) \in {hist[k].st, Code}
        /\ ReadsQuote(k) =>
            LET p == OpensAt(k)
                q == ChOf(k)
                C == ClosersOf(p, q)
            IN  (C # {} /\ Min(C) <= pos) =>
                    LET j == Min(C)
                        m == k + (j - p)
                        o == Len(hist[k].out)
                    IN  /\ m <= Len(hist)
                        /\ hist[m].at = j - 1
                        /\ \A i \in (k + 1)..m : hist[i].st = String(q)
                        /\ StAfter(m) = Code
                        /\ OutAfter(m) = hist[k].out \o SubSeq(input, p, j)
                        /\ pc = "done" =>
                            SubSeq(result, o + 1, o + (j - p) + 1) = SubSeq(input, p, j)

\* C3 witness: a finished scan with a closed literal that holds "//" or "/*".
C3_Witness ==
    /\ pc = "done"
    /\ \E k \in Iterations :
        /\ ReadsQuote(k)
        /\ ClosersOf(OpensAt(k), ChOf(k)) # {}
        /\ \E i \in (OpensAt(k) + 1)..(Min(ClosersOf(OpensAt(k), ChOf(k))) - 2) :
            input[i] = Slash /\ input[i + 1] \in {Slash, Star}

\* Iteration k read, in String(q), a q right behind a single backslash
ReadsEscapedQuote(k) ==
    /\ IsString(hist[k].st)
    /\ ChOf(k) = hist[k].st[2]
    /\ input[hist[k].at] = Backslash
    /\ input[hist[k].at - 1] # Backslash

\* C4: in String(q) a q right behind a single backslash is emitted and leaves
\* the state String(q); what follows it up to the real closing quote is kept,
\* so an input that is one literal with an escaped quote inside comes back
\* unchanged.
C4_EscapedQuoteKeepsLiteral ==
    /\ \A k \in Iterations :
        ReadsEscapedQuote(k) =>
            /\ StAfter(k) = hist[k].st
            /\ OutAfter(k) = Append(hist[k].out, ChOf(k))
            /\ \A m \in k..Len(hist) :
                (\A i \in k..m : hist[i].st = hist[k].st) =>
                    OutAfter(m) = hist[k].out \o SubSeq(input, hist[k].at + 1, hist[m].at + 1)
    /\ ( /\ pc = "done"
         /\ Len(input) >= 4
         /\ input[1] \in Quotes
         /\ ClosersOf(1, input[1]) = {Len(input)}
         /\ \E i \in 3..(Len(input) - 1) :
                input[i] = input[1] /\ input[i - 1] = Backslash /\ input[i - 2] # Backslash )
       => (result = input /\ state = Code)

\* C4 witness: a finished scan of one literal, closed by its last character,
\* with an escaped quote and a '/' behind it inside.
C4_Witness ==
    /\ pc = "done"
    /\ state = Code
    /\ result = input
    /\ \E k \in Iterations :
        /\ ReadsEscapedQuote(k)
        /\ hist[k].at + 2 < Len(input)
        /\ input[hist[k].at + 2] = Slash
        /\ ClosersOf(1, input[1]) = {Len(input)}

\* C5: a "//" read in Code emits neither slash; every character behind it up
\* to the next newline is discarded in SingleLineComment; that newline is
\* emitted, the one character the whole comment leaves in the output, and
\* puts the scanner back in Code.
C5_LineCommentKeepsNewline ==
    \A k \in Iterations :
        ReadsOpener(k, Slash) =>
            LET p == OpensAt(k)
                NL == NewlinesAfter(p)
                last == IF NL = {} THEN Len(input) ELSE Min(NL) - 1
            IN  /\ Consumed(k) = 2
                /\ StAfter(k) = SingleLineComment
                /\ OutAfter(k) = hist[k].out
                /\ \A m \in (k + 1)..Len(hist) :
                    hist[m].at + 1 <= last =>
                        /\ hist[m].st = SingleLineComment
                        /\ Consumed(m) = 1
                        /\ StAfter(m) = SingleLineComment
                        /\ OutAfter(m) = hist[k].out
                /\ (NL # {} /\ Min(NL) <= pos) =>
                    LET j == Min(NL)
                        m == k + (j - p - 1)
                    IN  /\ m <= Len(hist)
                        /\ hist[m].at = j - 1
                        /\ hist[m].st = SingleLineComment
                        /\ StAfter(m) = Code
                        /\ OutAfter(m) = Append(hist[k].out, Newline)

\* C5 witness: a finished scan with a "//" comment that has text, its newline
\* and a character of code behind the newline.
C5_Witness ==
    /\ pc = "done"
    /\ \E k \in Iterations :
        /\ ReadsOpener(k, Slash)
        /\ NewlinesAfter(OpensAt(k)) # {}
        /\ Min(NewlinesAfter(OpensAt(k))) > OpensAt(k) + 2
        /\ Min(NewlinesAfter(OpensAt(k))) < Len(input)
        /\ result = Append(Append(hist[k].out, Newline), input[Len(input)])

\* A step of the scan: an iteration takes one or two characters and stays
\* inside the input; the loop ends only with the whole input taken; nothing
\* happens after the return.
StepAdvances ==
    /\ (pc = "scan" /\ pos < Len(input)) =>
        /\ pos' \in {pos + 1, pos + 2}
        /\ pos' <= Len(input)
        /\ pc' = "scan"
    /\ (pc = "scan" /\ pos >= Len(input)) =>
        /\ pos = Len(input)
        /\ pos' = pos
        /\ pc' = "done"
    /\ pc # "done"

\* Every input position was taken by exactly one iteration
EachConsumedOnce ==
    \A i \in 1..Len(input) :
        Cardinality({k \in Iterations : hist[k].at < i /\ i <= AtAfter(k)}) = 1

\* C6: obfuscate is total and terminates: while it scans some step can always
\* be taken, every step advances the position by one or two characters and
\* never past the end, and the scan ends, exactly when the position is the
\* length of the input, every character consumed exactly once.
C6_TotalAndTerminates ==
    /\ [](pc = "scan" => ENABLED Next)
    /\ [][StepAdvances]_vars
    /\ <>[](pc = "done" /\ pos = Len(input) /\ EachConsumedOnce)

\* C6 witness: a finished scan of a full-length input left in the middle of a
\* literal, some iterations having taken two characters.
C6_Witness ==
    /\ pc = "done"
    /\ Len(input) = MaxLen
    /\ IsString(state)
    /\ \E k \in Iterations : Consumed(k) = 2
    /\ EachConsumedOnce

\* C7: a "/*" read in Code is closed by the first "*/" that starts behind the
\* opener's two characters; opener, closer and everything between them emit
\* nothing, the scanner is back in Code behind the closer, and the character
\* right behind the closer is the next one read, in Code.
C7_BlockCommentStripped ==
    \A k \in Iterations :
        ReadsOpener(k, Star) =>
            LET p == OpensAt(k)
                CL == BlockClosersAfter(p)
                last == IF CL = {} THEN Len(input) ELSE Min(CL)
            IN  /\ Consumed(k) = 2
                /\ StAfter(k) = MultiLineComment
                /\ OutAfter(k) = hist[k].out
                /\ \A m \in (k + 1)..Len(hist) :
                    hist[m].at + 1 <= last =>
                        /\ hist[m].st = MultiLineComment
                        /\ OutAfter(m) = hist[k].out
                        /\ hist[m].at + 1 < last =>
                            (Consumed(m) = 1 /\ StAfter(m) = MultiLineComment)
                /\ (CL # {} /\ Min(CL) <= pos) =>
                    LET j == Min(CL)
                        m == k + (j - p - 1)
                    IN  /\ m <= Len(hist)
                        /\ hist[m].at = j - 1
                        /\ Consumed(m) = 2
                        /\ StAfter(m) = Code
                        /\ OutAfter(m) = hist[k].out
                        /\ AtAfter(m) = j + 1

\* C7 witness: a finished scan with a closed block comment, the character
\* behind the closer emitted as code.
C7_Witness ==
    /\ pc = "done"
    /\ \E k \in Iterations :
        /\ ReadsOpener(k, Star)
        /\ BlockClosersAfter(OpensAt(k)) # {}
        /\ Min(BlockClosersAfter(OpensAt(k))) + 2 = Len(input)
        /\ result = Append(hist[k].out, input[Len(input)])

\* The last iteration that started in Code: the one that read the opener of
\* the comment or literal the scanner is in.
LastInCode == Max({k \in Iterations : hist[k].st = Code})

\* C8: when the input ends in SingleLineComment or MultiLineComment, what is
\* returned is exactly the output as it was before the opener was read.
C8_UnterminatedCommentDropped ==
    (pc = "done" /\ state \in {SingleLineComment, MultiLineComment}) =>
        /\ {k \in Iterations : hist[k].st = Code} # {}
        /\ ChOf(LastInCode) = Slash
        /\ input[hist[LastInCode].at + 2] = (IF state = SingleLineComment THEN Slash ELSE Star)
        /\ result = hist[LastInCode].out

\* C8 witness: a finished scan that ended in a block comment, with code in
\* front of the opener and text behind it.
C8_Witness ==
    /\ pc = "done"
    /\ state = MultiLineComment
    /\ result # <<>>
    /\ hist[LastInCode].at + 2 < Len(input)

\* C9: when the input ends in String(q), the output is what was emitted
\* before the opening quote followed by every input character from the
\* opening quote to the end, and nothing more.
C9_UnterminatedLiteralCopied ==
    (pc = "done" /\ IsString(state)) =>
        /\ {k \in Iterations : hist[k].st = Code} # {}
        /\ ChOf(LastInCode) = state[2]
        /\ result = hist[LastInCode].out
                        \o SubSeq(input, hist[LastInCode].at + 1, Len(input))

\* C9 witness: a finished scan that ended in a literal, with code in front of
\* the opening quote and an escaped quote as the last character.
C9_Witness ==
    /\ pc = "done"
    /\ IsString(state)
    /\ hist[LastInCode].out # <<>>
    /\ input[Len(input)] = state[2]
    /\ hist[LastInCode].at + 2 < Len(input)

\* C10 as claimed: no character consumed in SingleLineComment, the
\* terminating newline included, is appended to the output.
C10_NothingEmittedInLineComment ==
    \A k \in Iterations :
        hist[k].st = SingleLineComment => OutAfter(k) = hist[k].out

\* C10: in SingleLineComment every character but the newline is discarded and
\* leaves the state unchanged; the terminating newline is appended to the
\* output and puts the scanner back in Code.
C10_OnlyNewlineEmittedInLineComment ==
    \A k \in Iterations :
        hist[k].st = SingleLineComment =>
            /\ Consumed(k) = 1
            /\ IF ChOf(k) = Newline
               THEN OutAfter(k) = Append(hist[k].out, Newline) /\ StAfter(k) = Code
               ELSE OutAfter(k) = hist[k].out /\ StAfter(k) = SingleLineComment

\* C10 witness: a finished scan that consumed, in SingleLineComment, both a
\* quote character and the terminating newline.
C10_Witness ==
    /\ pc = "done"
    /\ \E k, m \in Iterations :
        /\ hist[k].st = SingleLineComment /\ ChOf(k) \in Quotes
        /\ hist[m].st = SingleLineComment /\ ChOf(m) = Newline
        /\ result = <<Newline>>

\* Iteration k read, in Code, a '/' that opens no comment
ReadsLoneSlash(k) ==
    /\ hist[k].st = Code
    /\ ChOf(k) = Slash
    /\ \/ hist[k].at + 2 > Len(input)
       \/ input[hist[k].at + 2] \notin {Slash, Star}

\* C11: in Code a '/' whose next character is neither '/' nor '*', or which
\* ends the input, is emitted and leaves the scanner in Code; the next
\* character is not consumed with it: the next iteration reads it, in Code.
C11_LoneSlashEmitted ==
    \A k \in Iterations :
        ReadsLoneSlash(k) =>
            /\ Consumed(k) = 1
            /\ OutAfter(k) = Append(hist[k].out, Slash)
            /\ StAfter(k) = Code
            /\ k < Len(hist) =>
                (hist[k + 1].at = hist[k].at + 1 /\ hist[k + 1].st = Code)

\* C11 witness: a finished scan with a '/' in front of a quote character,
\* which the next iteration read as the opening of a literal, and a '/' as
\* the last character.
C11_Witness ==
    /\ pc = "done"
    /\ Len(input) >= 2
    /\ input[Len(input)] = Slash
    /\ ReadsLoneSlash(Len(hist))
    /\ \E k \in Iterations :
        /\ ReadsLoneSlash(k)
        /\ k < Len(hist)
        /\ ReadsQuote(k + 1)

\* Iteration k read, in MultiLineComment, a '*' with no '/' right behind it
ReadsLoneStar(k) ==
    /\ hist[k].st = MultiLineComment
    /\ ChOf(k) = Star
    /\ \/ hist[k].at + 2 > Len(input)
       \/ input[hist[k].at + 2] # Slash

\* C12: the '*' of an opener "/*" is consumed with it and closes nothing:
\* the iteration behind the opener starts behind that '*', so "/*/" leaves
\* the scanner in MultiLineComment and "/**/" returns it to Code; a '*' in
\* MultiLineComment with no '/' behind it is discarded alone, so the second
\* '*' of "**/" still closes the comment.
C12_OpenerStarNotReused ==
    \A k \in Iterations :
        /\ ReadsOpener(k, Star) =>
            /\ AtAfter(k) = hist[k].at + 2
            /\ k < Len(hist) =>
                /\ hist[k + 1].st = MultiLineComment
                /\ ChOf(k + 1) = Slash => StAfter(k + 1) = MultiLineComment
                /\ (/\ ChOf(k + 1) = Star
                    /\ hist[k + 1].at + 2 <= Len(input)
                    /\ input[hist[k + 1].at + 2] = Slash)
                   => (StAfter(k + 1) = Code /\ Consumed(k + 1) = 2)
        /\ ReadsLoneStar(k) =>
            /\ Consumed(k) = 1
            /\ StAfter(k) = MultiLineComment
            /\ OutAfter(k) = hist[k].out
            /\ (/\ k < Len(hist)
                /\ ChOf(k + 1) = Star
                /\ hist[k + 1].at + 2 <= Len(input)
                /\ input[hist[k + 1].at + 2] = Slash)
               => (StAfter(k + 1) = Code /\ Consumed(k + 1) = 2)

\* C12 witness: a finished scan of a text that starts with "/*/" and was
\* left in MultiLineComment, a '*' with no '/' behind it read on the way.
C12_Witness ==
    /\ pc = "done"
    /\ state = MultiLineComment
    /\ Len(input) >= 4
    /\ SubSeq(input, 1, 3) = <<Slash, Star, Slash>>
    /\ \E k \in Iterations : ReadsLoneStar(k)

\* C13: a literal is closed only by the quote character that opened it: in
\* String(q) the other quote character is emitted and leaves the state
\* String(q), and the state is left only for Code, on a q whose preceding
\* input character is not a backslash.
C13_ClosedBySameQuoteOnly ==
    \A k \in Iterations :
        IsString(hist[k].st) =>
            /\ (ChOf(k) \in Quotes /\ ChOf(k) # hist[k].st[2]) =>
                /\ StAfter(k) = hist[k].st
                /\ OutAfter(k) = Append(hist[k].out, ChOf(k))
            /\ StAfter(k) # hist[k].st =>
                /\ StAfter(k) = Code
                /\ ChOf(k) = hist[k].st[2]
                /\ input[hist[k].at] # Backslash

\* C13 witness: a finished scan with a literal that holds the other quote
\* character and was closed by its own.
C13_Witness ==
    /\ pc = "done"
    /\ \E k, m \in Iterations :
        /\ k < m
        /\ IsString(hist[k].st)
        /\ ChOf(k) \in Quotes
        /\ ChOf(k) # hist[k].st[2]
        /\ hist[m].st = hist[k].st
        /\ \A i \in k..m : hist[i].st = hist[k].st
        /\ StAfter(m) = Code

\* Iteration k read, in String(q), a q right behind a backslash, whatever
\* stands in front of that backslash
ReadsQuoteAfterBackslash(k) ==
    /\ IsString(hist[k].st)
    /\ ChOf(k) = hist[k].st[2]
    /\ input[hist[k].at] = Backslash

\* C14: the escape check reads one preceding character and counts no
\* parity: in String(q) a q behind a run of one or more backslashes, even or
\* odd, is emitted and leaves the state String(q); so after a literal whose
\* content is an escaped backslash the scanner is still in String(q) and
\* what follows, comment openers included, is copied to the output.
C14_NoBackslashParity ==
    \A k \in Iterations :
        ReadsQuoteAfterBackslash(k) =>
            /\ StAfter(k) = hist[k].st
            /\ OutAfter(k) = Append(hist[k].out, ChOf(k))
            /\ (/\ input[hist[k].at - 1] = Backslash
                /\ k < Len(hist)
                /\ ChOf(k + 1) = Slash)
               => /\ hist[k + 1].st = hist[k].st
                  /\ Consumed(k + 1) = 1
                  /\ OutAfter(k + 1) = hist[k].out \o <<ChOf(k), Slash>>
                  /\ StAfter(k + 1) = hist[k].st

\* C14 witness: a finished scan of q \ \ q / : the literal with an escaped
\* backslash as its content did not close and the '/' behind it was copied
\* in String(q).
C14_Witness ==
    /\ pc = "done"
    /\ Len(input) = 5
    /\ input[1] \in Quotes
    /\ SubSeq(input, 2, 5) = <<Backslash, Backslash, input[1], Slash>>
    /\ state = String(input[1])
    /\ result = input

\* C15: quote characters and comment openers are inert inside comments:
\* String is entered only from Code, SingleLineComment is left only for Code
\* and only on a newline, MultiLineComment is left only for Code and only on
\* "*/".
C15_CommentsInert ==
    \A k \in Iterations :
        /\ (IsString(StAfter(k)) /\ StAfter(k) # hist[k].st) =>
            (hist[k].st = Code /\ StAfter(k) = String(ChOf(k)))
        /\ hist[k].st = SingleLineComment =>
            /\ StAfter(k) \in {SingleLineComment, Code}
            /\ StAfter(k) = Code <=> ChOf(k) = Newline
        /\ hist[k].st = MultiLineComment =>
            /\ StAfter(k) \in {MultiLineComment, Code}
            /\ StAfter(k) = Code <=>
                /\ ChOf(k) = Star
                /\ hist[k].at + 2 <= Len(input)
                /\ input[hist[k].at + 2] = Slash

\* C15 witness: a finished scan that read, in SingleLineComment, a quote
\* character and then a "/*", and ended in SingleLineComment with nothing
\* emitted.
C15_Witness ==
    /\ pc = "done"
    /\ state = SingleLineComment
    /\ result = <<>>
    /\ \E k \in Iterations :
        /\ hist[k].st = SingleLineComment
        /\ ChOf(k) \in Quotes
        /\ k + 2 <= Len(hist)
        /\ ChOf(k + 1) = Slash
        /\ ChOf(k + 2) = Star

\* The iteration of the first call that emitted the i-th character of its
\* output, which is the input of the second call
EmittedBy(i) ==
    LET h == first[1].hist
    IN  CHOOSE k \in 1..Len(h) :
            /\ Len(h[k].out) = i - 1
            /\ (k < Len(h) => Len(h[k + 1].out) = i)

\* C16: obfuscate is idempotent: a second call, on the text the first call
\* returned, returns that text unchanged. It strips nothing: it never enters
\* a comment state and emits every character it reads; and it reads every
\* character in the state in which the first call emitted it (Code for the
\* newline that ended a "//" comment), so literals open and close at the
\* same characters.
C16_Idempotent ==
    pass = 2 =>
        /\ state \notin {SingleLineComment, MultiLineComment}
        /\ output = SubSeq(input, 1, pos)
        /\ pc = "done" => (result = input /\ Len(hist) = Len(input))
        /\ \A m \in Iterations :
            LET st1 == first[1].hist[EmittedBy(m)].st
            IN  hist[m].st = (IF st1 = SingleLineComment THEN Code ELSE st1)
        /\ pc = "done" =>
            state = (IF first[1].state \in {SingleLineComment, MultiLineComment}
                     THEN Code ELSE first[1].state)

\* C16 witness: a finished second call on a text that the first call had
\* made shorter and that holds a literal with a '/' in it, the scanner back
\* in Code.
C16_Witness ==
    /\ pass = 2
    /\ pc = "done"
    /\ result = input
    /\ Len(input) < Len(first[1].input)
    /\ state = Code
    /\ \E k \in Iterations : IsString(hist[k].st) /\ ChOf(k) = Slash

\* The iterations that emitted something
Emitting == {k \in Iterations : OutAfter(k) # hist[k].out}

\* C17: the output is an order-preserving subsequence of the input: every
\* step leaves the output as it was or appends the input character at the
\* position the step started at, never the peeked one; what was emitted
\* stays: the output every iteration started with is a prefix of the output
\* now, the character an iteration appended is still where it was put, and
\* the output holds one character per emitting iteration.
C17_OutputIsSubsequence ==
    /\ \A k \in Iterations :
        /\ OutAfter(k) \in {hist[k].out, Append(hist[k].out, ChOf(k))}
        /\ hist[k].out = SubSeq(output, 1, Len(hist[k].out))
        /\ k \in Emitting => output[Len(hist[k].out) + 1] = input[hist[k].at + 1]
    /\ Len(output) = Cardinality(Emitting)
    /\ \A k, m \in Emitting :
        k < m => (Len(hist[k].out) < Len(hist[m].out) /\ hist[k].at < hist[m].at)
    /\ pc = "done" => result = output

\* C17 witness: a finished scan that emitted characters on both sides of a
\* comment which consumed a peeked character and discarded text.
C17_Witness ==
    /\ pc = "done"
    /\ \E k, m, n \in Iterations :
        /\ k < m /\ m < n
        /\ k \in Emitting
        /\ Consumed(m) = 2
        /\ n \in Emitting
        /\ hist[n].at > hist[m].at + 2
    /\ Len(result) = 2

\* How many newlines a text holds
NewlineCount(x) == Cardinality({i \in 1..Len(x) : x[i] = Newline})
\* The iterations that read a newline in MultiLineComment
NewlinesInBlock ==
    {k \in Iterations : hist[k].st = MultiLineComment /\ ChOf(k) = Newline}

\* C18: newlines are lost only inside block comments: the output holds as
\* many newlines as the consumed input less those read in MultiLineComment;
\* so a text scanned without entering MultiLineComment comes back with as
\* many lines as it had.
C18_NewlinesLostOnlyInBlock ==
    /\ NewlineCount(output) =
        NewlineCount(SubSeq(input, 1, pos)) - Cardinality(NewlinesInBlock)
    /\ pc = "done" =>
        /\ NewlineCount(result) = NewlineCount(input) - Cardinality(NewlinesInBlock)
        /\ (\A k \in Iterations : hist[k].st # MultiLineComment) =>
            NewlineCount(result) = NewlineCount(input)

\* C18 witness: a finished scan that kept a newline of the code and lost one
\* inside a block comment.
C18_Witness ==
    /\ pc = "done"
    /\ NewlinesInBlock # {}
    /\ NewlineCount(result) = 1
    /\ NewlineCount(input) = 2
    /\ \E k \in Iterations : hist[k].st = Code /\ ChOf(k) = Newline

\* C20: whenever a step begins in String(q), prev_char is the input
\* character right in front of the current position, the last one consumed.
\* prev_char is the character the last iteration started at, which is stale
\* after an iteration that also consumed the peeked character; no such
\* iteration leaves the scanner in String(q).
C20_PrevCharFreshInString ==
    /\ IsString(state) => (pos >= 1 /\ prev_char = Some(input[pos]))
    /\ \A k \in Iterations :
        /\ IsString(hist[k].st) => hist[k].at >= 1
        /\ Consumed(k) = 2 => ~IsString(StAfter(k))
    /\ hist # <<>> => prev_char = Some(ChOf(Len(hist)))

\* C20 witness: a step about to begin in String(q), behind a comment whose
\* opener was consumed with its peeked character.
C20_Witness ==
    /\ pc = "scan"
    /\ IsString(state)
    /\ pos < Len(input)
    /\ \E k \in Iterations : Consumed(k) = 2

\* The '(' ')' '[' ']' of a text, everything else left out
IsBracket(x) == x \in {LParen, RParen, LBracket, RBracket}
Brackets(x) == SelectSeq(x, IsBracket)
\* An opening symbol right in front of its own closing symbol
IsPair(a, b) == (a = LParen /\ b = RParen) \/ (a = LBracket /\ b = RBracket)
\* x with adjacent pairs struck out until none is left: empty exactly when x
\* is properly nested, and free of closing symbols exactly when x can still
\* be completed to a properly nested sequence
RECURSIVE Reduce(_)
Reduce(x) ==
    LET P == {i \in 1..(Len(x) - 1) : IsPair(x[i], x[i + 1])}
    IN  IF P = {} THEN x
        ELSE LET i == Min(P)
             IN  Reduce(SubSeq(x, 1, i - 1) \o SubSeq(x, i + 2, Len(x)))
ProperlyNested(x) == Reduce(Brackets(x)) = <<>>
\* The positions of text whose closing symbol finds no opening symbol of its
\* kind as the most recent unmatched one
Offending ==
    {p \in 1..Len(text) :
        LET r == Reduce(Brackets(SubSeq(text, 1, p)))
        IN  \E i \in 1..Len(r) : r[i] \in {RParen, RBracket}}

====
